---------------------------- MODULE Spec2Model ----------------------------
(***************************************************************************)
(* Model of founds.py: the golden-ratio run finder.                        *)
(*                                                                         *)
(*   get_phi_prefix        the arbitrary-precision engine (Decimal)        *)
(*   find_first_runs       the per-n scanner used by the start-up check    *)
(*   run_debug_check       the start-up check against GROUND_TRUTH         *)
(*   curses_main           terminal check, batch phase, live phase         *)
(*   phi_digit_generator   the live digit generator                        *)
(*   main                  run_debug_check, then curses.wrapper            *)
(*                                                                         *)
(* Strings are sequences of one-character strings.  Decimal values are     *)
(* sequences of decimal digits (the coefficient), most significant first;  *)
(* every value the program computes lies in [1, 10), so the decimal point  *)
(* always follows the first digit.                                         *)
(***************************************************************************)
EXTENDS Integers, Sequences, FiniteSets, TLC

(***************************************************************************)
(* Bounds of the model.  The program's lengths (20 000 and 100 000         *)
(* characters) are scaled down to these.                                   *)
(***************************************************************************)
\* scaled PHI_PREFIX_LENGTH: characters streamed in the batch phase
PrefixLen == 12
\* scaled N of run_debug_check: characters checked at start-up
DebugLen == 12
\* characters pulled from the live generator before the model stops, in
\* the program and under an arbitrary input string
MaxLive == 140
ScanLive == 12
\* longest arbitrary input string of the scanner specifications
MaxLen == 6
\* largest target length and number of calls of the engine specification
MaxTarget == 20
MaxCalls == 2

(***************************************************************************)
(* Program constants.                                                      *)
(***************************************************************************)
\* get_phi_prefix: getcontext().prec = N + 50
PREC_MARGIN == 50
\* get_phi_prefix: getcontext().prec += 50
PREC_STEP == 50
\* phi_digit_generator: getcontext().prec = printed + 10
GEN_MARGIN == 10
\* curses_main: if h < 20 or w < 80
MIN_ROWS == 20
MIN_COLS == 80
\* the decimal module's default context precision
DEFAULT_PREC == 28
\* find_first_runs(prefix, 9), range(2, 10), set(range(2, 10))
MAX_N == 9

\* the run lengths of interest: range(2, 10)
Lengths == 2..MAX_N

\* the characters for which str.isdigit() is true
DigitChars == <<"0", "1", "2", "3", "4", "5", "6", "7", "8", "9">>

Digits == {DigitChars[i] : i \in 1..10}

isdigit(ch) == ch \in Digits

\* Python's None, for a character (run_char) and for a position (pos)
NoChar == "none"

None == 0

\* the string "N/A"
NA == <<"N", "/", "A">>

\* run_char * n: the character repeated n times
Rep(ch, n) == [i \in 1..n |-> ch]

(***************************************************************************)
(* The arbitrary-precision engine.                                         *)
(***************************************************************************)
\* The decimal expansion of sqrt(5) = 2.2360679..., which Decimal(5).sqrt()
\* rounds to the context precision.
SQRT5 ==
    << 2, 2, 3, 6, 0, 6, 7, 9, 7, 7, 4, 9, 9, 7, 8, 9, 6, 9, 6, 4,
       0, 9, 1, 7, 3, 6, 6, 8, 7, 3, 1, 2, 7, 6, 2, 3, 5, 4, 4, 0,
       6, 1, 8, 3, 5, 9, 6, 1, 1, 5, 2, 5, 7, 2, 4, 2, 7, 0, 8, 9,
       7, 2, 4, 5, 4, 1, 0, 5, 2, 0, 9, 2, 5, 6, 3, 7, 8, 0, 4, 8,
       9, 9, 4, 1, 4, 4, 1, 4, 4, 0, 8, 3, 7, 8, 7, 8, 2, 2, 7, 4,
       9, 6, 9, 5, 0, 8, 1, 7, 6, 1, 5, 0, 7, 7, 3, 7, 8, 3, 5, 0,
       4, 2, 5, 3, 2, 6, 7, 7, 2, 4, 4, 4, 7, 0, 7, 3, 8, 6, 3, 5,
       8, 6, 3, 6, 0, 1, 2, 1, 5, 3, 3, 4, 5, 2, 7, 0, 8, 8, 6, 6 >>

\* a coefficient plus one unit in its last place, carrying to the left
\* through its trailing nines
Incr(c) ==
    LET notNine == {i \in 1..Len(c) : c[i] # 9}
    IN  IF notNine = {} THEN <<1>> \o [i \in 1..Len(c) |-> 0]
        ELSE LET k == CHOOSE i \in notNine : \A j \in notNine : j <= i
             IN  [i \in 1..Len(c) |->
                     IF i < k THEN c[i] ELSE IF i = k THEN c[i] + 1 ELSE 0]

\* Decimal(5).sqrt() at precision p: the expansion rounded to p significant
\* digits (ROUND_HALF_EVEN; sqrt(5) is irrational, so a discarded part that
\* starts with 5 is above one half).
DecimalSqrt5(p) ==
    IF SQRT5[p + 1] >= 5 THEN Incr(SubSeq(SQRT5, 1, p)) ELSE SubSeq(SQRT5, 1, p)

\* Decimal(1) + x for x in [2, 9): exact, one more in the units digit
DecimalAddOne(c) == [c EXCEPT ![1] = c[1] + 1]

\* the digits of c / 2 by long division: the remainder carried into digit
\* i is the parity of digit i - 1
HalveDigits(c) ==
    [i \in 1..Len(c) |->
        (10 * (IF i = 1 THEN 0 ELSE c[i - 1] % 2) + c[i]) \div 2]

\* x / Decimal(2) at the precision Len(c), for x in [2, 10): the quotient has
\* Len(c) digits and the discarded part is 0 or exactly one half, which
\* ROUND_HALF_EVEN rounds to the even neighbour.
DecimalHalve(c) ==
    LET q == HalveDigits(c)
    IN  IF c[Len(c)] % 2 = 1 /\ q[Len(q)] % 2 = 1 THEN Incr(q) ELSE q

\* (Decimal(1) + Decimal(5).sqrt()) / Decimal(2) at precision p
PhiAt(p) == DecimalHalve(DecimalAddOne(DecimalSqrt5(p)))

\* format(phi, 'f'): the first digit, the separator, the other digits
Format(c) ==
    IF Len(c) = 1 THEN <<DigitChars[c[1] + 1]>>
    ELSE <<DigitChars[c[1] + 1], ".">>
         \o [i \in 1..(Len(c) - 1) |-> DigitChars[c[i + 1] + 1]]

\* s[:n - 1]: the slice one character short
TakeExclusive(s, n) == SubSeq(s, 1, IF n - 1 < Len(s) THEN n - 1 ELSE Len(s))

\* s[:n]
Take(s, n) == SubSeq(s, 1, IF n < Len(s) THEN n ELSE Len(s))

\* the retry loop of get_phi_prefix: <<s, prec>> once len(s) >= N
RECURSIVE PrefixRetry(_, _)
PrefixRetry(N, p) ==
    IF Len(Format(PhiAt(p))) < N THEN PrefixRetry(N, p + PREC_STEP)
    ELSE <<Format(PhiAt(p)), p>>

\* get_phi_prefix with the working precision set to N, without guard digits
PrefixNoMargin(N) == Take(PrefixRetry(N, N)[1], N)

\* get_phi_prefix(N): the string returned
get_phi_prefix(N) == Take(PrefixRetry(N, N + PREC_MARGIN)[1], N)

\* get_phi_prefix(N): the context precision it leaves behind
PrecAfterPrefix(N) == PrefixRetry(N, N + PREC_MARGIN)[2]


(***************************************************************************)
(* Tables.                                                                 *)
(***************************************************************************)
\* GROUND_TRUTH: n -> (sequence, position)
GROUND_TRUTH ==
    [n \in Lengths |->
        CASE n = 2 -> <<Rep("3", 2), 7>>
          [] n = 3 -> <<Rep("2", 3), 131>>
          [] n = 4 -> <<Rep("4", 4), 1218>>
          [] n = 5 -> <<Rep("9", 5), 6401>>
          [] OTHER -> <<NA, None>>]

\* RUN_COLOR_MAP.get(run_char, 1): digit -> color pair
RunColor(c) ==
    CASE c \in {"0", "1"} -> 2
      [] c \in {"2", "3"} -> 3
      [] c \in {"4", "5"} -> 4
      [] c \in {"6", "7"} -> 5
      [] c \in {"8", "9"} -> 6
      [] OTHER -> 1

\* run_char in ('1', '3', '5', '7', '9')
OddDigit(c) == c \in {"1", "3", "5", "7", "9"}

(***************************************************************************)
(* find_first_runs.                                                        *)
(***************************************************************************)
\* the inner loop of find_first_runs for one n, from the character at the
\* 1-based index i (enumerate's i + 1) with the run (rc, rl) so far:
\* (seq, pos) at the break, ("N/A", None) when the string ends first
\* ScanFor with a non-digit skipped and the run kept across it
RECURSIVE ScanForNoReset(_, _, _, _, _)
ScanForNoReset(s, n, i, rc, rl) ==
    IF i > Len(s) THEN <<NA, None>>
    ELSE IF ~isdigit(s[i]) THEN ScanForNoReset(s, n, i + 1, rc, rl)
    ELSE LET len == IF s[i] = rc THEN rl + 1 ELSE 1
         IN  IF len = n THEN <<Rep(s[i], n), i - (n - 1)>>
             ELSE ScanForNoReset(s, n, i + 1, s[i], len)

RECURSIVE ScanFor(_, _, _, _, _)
ScanFor(s, n, i, rc, rl) ==
    IF i > Len(s) THEN <<NA, None>>
    ELSE IF ~isdigit(s[i]) THEN ScanFor(s, n, i + 1, NoChar, 0)
    ELSE LET len == IF s[i] = rc THEN rl + 1 ELSE 1
         IN  IF len = n THEN <<Rep(s[i], n), i - (n - 1)>>
             ELSE ScanFor(s, n, i + 1, s[i], len)

\* find_first_runs(phi_str, max_n): {n: (sequence, position)}
find_first_runs(phi_str, max_n) ==
    [n \in 2..max_n |-> ScanFor(phi_str, n, 1, NoChar, 0)]

\* the comparison loop of run_debug_check from n on: the list of
\* (n, exp_seq, exp_pos, fnd_seq, fnd_pos) of the entries that differ
RECURSIVE MismatchesFrom(_, _, _)
MismatchesFrom(truth, fnd, n) ==
    IF n > MAX_N THEN <<>>
    ELSE (IF truth[n][1] # fnd[n][1] \/ truth[n][2] # fnd[n][2]
          THEN <<<<n, truth[n][1], truth[n][2], fnd[n][1], fnd[n][2]>>>>
          ELSE <<>>)
         \o MismatchesFrom(truth, fnd, n + 1)

\* Mismatches that stops at the first entry that differs
MismatchesFirstOnly(truth, fnd) == Take(MismatchesFrom(truth, fnd, 2), 1)

\* mismatches, as run_debug_check builds it
Mismatches(truth, fnd) == MismatchesFrom(truth, fnd, 2)

(***************************************************************************)
(* The scanner step shared by the batch loop and the live loop.            *)
(***************************************************************************)
\* RunUpdate with the length kept when the digit changes
RunUpdateNoRestart(c, rc, rl) ==
    IF rc = NoChar THEN <<c, 1>>
    ELSE IF c = rc THEN <<rc, rl + 1>>
    ELSE <<c, rl + 1>>

\* the run after a digit ch: <<run_char, run_len>>
RunUpdate(c, rc, rl) ==
    IF rc = NoChar THEN <<c, 1>>
    ELSE IF c = rc THEN <<rc, rl + 1>>
    ELSE <<c, 1>>

\* StartPos one too low
StartPosOffByOne(pos, n) == pos - n

\* StartPos with the operands of the subtraction exchanged
StartPosSwapped(pos, n) == n - pos + 1

\* start_pos = total_pos - n + 1
StartPos(pos, n) == pos - n + 1

\* RenderAttr with the test `run_len > 2`
RenderAttrLate(c, rc, rl) ==
    IF rl > 2 THEN [ch |-> c, pair |-> RunColor(rc), bold |-> OddDigit(rc)]
    ELSE [ch |-> c, pair |-> 1, bold |-> FALSE]

\* the attribute a digit is drawn with: color pair and A_BOLD
RenderAttr(c, rc, rl) ==
    IF rl >= 2 THEN [ch |-> c, pair |-> RunColor(rc), bold |-> OddDigit(rc)]
    ELSE [ch |-> c, pair |-> 1, bold |-> FALSE]

(***************************************************************************)
(* State.                                                                  *)
(***************************************************************************)
VARIABLES
    pc,             \* where the program is
    exit_code,      \* the process's exit status, -1 while it runs
    exit_at,        \* the pc at which the process ended
    prec,           \* getcontext().prec, the shared decimal precision
    ground_truth,   \* the reference table in use
    prefix,         \* run_debug_check: prefix
    found,          \* run_debug_check: found
    reported,       \* the discrepancies written to standard output
    h, w,           \* stdscr.getmaxyx()
    live_cap,       \* the live pulls after which the model stops
    display,        \* "none", "diagnostic", "windows" or "restored"
    header,         \* header_win: n -> what the "Len n:" line shows
    events,         \* the milestone notifications (beeps), in order
    digit_win,      \* digit_win: the digits drawn, in order
    total_pos, run_char, run_len, remaining,
    static_prefix,  \* curses_main: static_prefix
    idx,            \* characters of static_prefix the for loop has taken
    ch,             \* the loop variable ch
    gen_state,      \* the generator: "new", "loop" or "suspended"
    printed, gen_s, \* the generator's printed and s
    pulled,         \* characters the generator has yielded
    scanned,        \* the characters counted by total_pos, in order
    calls           \* the calls of get_phi_prefix so far, in order

vars == <<pc, exit_code, exit_at, prec, ground_truth, prefix, found, reported,
          h, w, live_cap, display, header, events, digit_win, total_pos, run_char,
          run_len, remaining, static_prefix, idx, ch, gen_state, printed,
          gen_s, pulled, scanned, calls>>

debugVars == <<ground_truth, prefix, found, reported>>

envVars == <<h, w, live_cap>>

scanVars == <<total_pos, run_char, run_len, remaining>>

genVars == <<gen_state, printed, gen_s, pulled>>

\* one call get_phi_prefix(N) made with the shared precision at `before`:
\* the argument, the value returned and the precision the call leaves
CallRecord(N, before) ==
    [n |-> N, before |-> before, ret |-> get_phi_prefix(N),
     after |-> PrecAfterPrefix(N)]

\* the reference table cut to a prefix of len characters: a run that does
\* not end within it is ("N/A", None)
Restrict(truth, len) ==
    [n \in Lengths |->
        IF truth[n][2] # None /\ truth[n][2] + n - 1 <= len THEN truth[n]
        ELSE <<NA, None>>]

\* the reference tables the model is run with: GROUND_TRUTH, GROUND_TRUTH
\* for the scaled prefix, and that one with its entry for 2 corrupted
TruthTables ==
    { GROUND_TRUTH,
      Restrict(GROUND_TRUTH, DebugLen),
      [Restrict(GROUND_TRUTH, DebugLen) EXCEPT ![2] = <<Rep("3", 2), 8>>] }

\* "Len n: N/A" on every header line
BlankHeader == [n \in Lengths |-> <<NA, None>>]

\* the state before main() has run anything
Init ==
    /\ pc = "d_prefix"
    /\ exit_code = -1
    /\ exit_at = "none"
    /\ prec = DEFAULT_PREC
    /\ ground_truth \in TruthTables
    /\ prefix = <<>>
    /\ found = BlankHeader
    /\ reported = <<>>
    /\ h \in {MIN_ROWS - 1, MIN_ROWS}
    /\ w \in {MIN_COLS - 1, MIN_COLS}
    /\ live_cap = MaxLive
    /\ display = "none"
    /\ header = BlankHeader
    /\ events = <<>>
    /\ digit_win = <<>>
    /\ total_pos = 0
    /\ run_char = NoChar
    /\ run_len = 0
    /\ remaining = {}
    /\ static_prefix = <<>>
    /\ idx = 0
    /\ ch = NoChar
    /\ gen_state = "new"
    /\ printed = 0
    /\ gen_s = <<>>
    /\ pulled = 0
    /\ scanned = <<>>
    /\ calls = <<>>

(***************************************************************************)
(* run_debug_check.                                                        *)
(***************************************************************************)
\* prefix = get_phi_prefix(N)
DebugPrefix ==
    /\ pc = "d_prefix"
    /\ prefix' = get_phi_prefix(DebugLen)
    /\ prec' = PrecAfterPrefix(DebugLen)
    /\ calls' = Append(calls, CallRecord(DebugLen, prec))
    /\ pc' = "d_find"
    /\ UNCHANGED <<exit_code, exit_at, ground_truth, found, reported, envVars,
                   display, header, events, digit_win, scanVars, static_prefix,
                   idx, ch, genVars, scanned>>

\* found = find_first_runs(prefix, 9)
DebugFind ==
    /\ pc = "d_find"
    /\ found' = find_first_runs(prefix, MAX_N)
    /\ pc' = "d_compare"
    /\ UNCHANGED <<exit_code, exit_at, prec, ground_truth, prefix, reported,
                   envVars, calls, display, header, events, digit_win, scanVars,
                   static_prefix, idx, ch, genVars, scanned>>

\* the comparison with GROUND_TRUTH: report and sys.exit(1), or return
DebugCompare ==
    /\ pc = "d_compare"
    /\ LET mismatches == Mismatches(ground_truth, found)
       IN  IF mismatches # <<>>
           THEN /\ reported' = mismatches
                /\ exit_code' = 1
                /\ exit_at' = pc
                /\ pc' = "exit"
           ELSE /\ pc' = "wrapper"
                /\ UNCHANGED <<reported, exit_code, exit_at>>
    /\ UNCHANGED <<prec, ground_truth, prefix, found, envVars, calls, display, header,
                   events, digit_win, scanVars, static_prefix, idx, ch, genVars,
                   scanned>>

(***************************************************************************)
(* curses_main: start-up.                                                  *)
(***************************************************************************)
\* CursesInit with the size test `h < 20 and w < 80`
CursesInitBothSmall ==
    /\ pc = "wrapper"
    /\ IF h < MIN_ROWS /\ w < MIN_COLS
       THEN /\ display' = "diagnostic"
            /\ pc' = "getch"
            /\ UNCHANGED header
       ELSE /\ display' = "windows"
            /\ header' = BlankHeader
            /\ pc' = "stream_init"
    /\ UNCHANGED <<exit_code, exit_at, prec, debugVars, envVars, calls, events,
                   digit_win, scanVars, static_prefix, idx, ch, genVars,
                   scanned>>

\* curses.wrapper(curses_main) up to the header: the terminal-size check,
\* then the windows and the "Len n: N/A" lines
CursesInit ==
    /\ pc = "wrapper"
    /\ IF h < MIN_ROWS \/ w < MIN_COLS
       THEN /\ display' = "diagnostic"
            /\ pc' = "getch"
            /\ UNCHANGED header
       ELSE /\ display' = "windows"
            /\ header' = BlankHeader
            /\ pc' = "stream_init"
    /\ UNCHANGED <<exit_code, exit_at, prec, debugVars, envVars, calls, events,
                   digit_win, scanVars, static_prefix, idx, ch, genVars,
                   scanned>>

\* stdscr.getch() returns, curses_main returns, the wrapper restores the
\* terminal and main() ends
GetchReturn ==
    /\ pc = "getch"
    /\ display' = "restored"
    /\ exit_code' = 0
    /\ exit_at' = pc
    /\ pc' = "exit"
    /\ UNCHANGED <<prec, debugVars, envVars, calls, header, events, digit_win,
                   scanVars, static_prefix, idx, ch, genVars, scanned>>

\* the scanner state and static_prefix = get_phi_prefix(PHI_PREFIX_LENGTH)
StreamInit ==
    /\ pc = "stream_init"
    /\ total_pos' = 0
    /\ run_char' = NoChar
    /\ run_len' = 0
    /\ remaining' = Lengths
    /\ static_prefix' = get_phi_prefix(PrefixLen)
    /\ prec' = PrecAfterPrefix(PrefixLen)
    /\ calls' = Append(calls, CallRecord(PrefixLen, prec))
    /\ idx' = 0
    /\ pc' = "b_next"
    /\ UNCHANGED <<exit_code, exit_at, debugVars, envVars, display, header,
                   events, digit_win, ch, genVars, scanned>>

(***************************************************************************)
(* curses_main: the batch phase, one iteration of `for ch in               *)
(* static_prefix` in the steps between which an interrupt can arrive.      *)
(***************************************************************************)
\* the for loop takes the next character, or ends and the live generator
\* is created
BatchNext ==
    /\ pc = "b_next"
    /\ IF idx < Len(static_prefix)
       THEN /\ ch' = static_prefix[idx + 1]
            /\ idx' = idx + 1
            /\ pc' = "b_count"
       ELSE /\ pc' = "l_next"
            /\ UNCHANGED <<ch, idx>>
    /\ UNCHANGED <<exit_code, exit_at, prec, debugVars, envVars, calls, display,
                   header, events, digit_win, scanVars, static_prefix, genVars,
                   scanned>>

\* total_pos += 1
BatchCount ==
    /\ pc = "b_count"
    /\ total_pos' = total_pos + 1
    /\ scanned' = Append(scanned, ch)
    /\ pc' = "b_scan"
    /\ UNCHANGED <<exit_code, exit_at, prec, debugVars, envVars, calls, display,
                   header, events, digit_win, run_char, run_len, remaining,
                   static_prefix, idx, ch, genVars>>

\* the run update: a non-digit resets the run and continues the loop; a
\* digit extends or restarts it, and `run_len in remaining` is tested
BatchScan ==
    /\ pc = "b_scan"
    /\ IF ~isdigit(ch)
       THEN /\ run_char' = NoChar
            /\ run_len' = 0
            /\ pc' = "b_next"
       ELSE /\ run_char' = RunUpdate(ch, run_char, run_len)[1]
            /\ run_len' = RunUpdate(ch, run_char, run_len)[2]
            /\ pc' = IF run_len' \in remaining THEN "b_milestone"
                     ELSE "b_render"
    /\ UNCHANGED <<exit_code, exit_at, prec, debugVars, envVars, calls, display,
                   header, events, digit_win, total_pos, remaining,
                   static_prefix, idx, ch, genVars, scanned>>

\* the header line "Len n: seq @ start_pos" and the beep
BatchMilestone ==
    /\ pc = "b_milestone"
    /\ LET n == run_len
           start_pos == StartPos(total_pos, n)
           seq == Rep(run_char, n)
       IN  /\ header' = [header EXCEPT ![n] = <<seq, start_pos>>]
           /\ events' = Append(events, <<n, seq, start_pos>>)
    /\ pc' = "b_pause"
    /\ UNCHANGED <<exit_code, exit_at, prec, debugVars, envVars, calls, display,
                   digit_win, scanVars, static_prefix, idx, ch, genVars,
                   scanned>>

\* BatchPause without remaining.remove(n)
BatchPauseNoRemove ==
    /\ pc = "b_pause"
    /\ pc' = "b_render"
    /\ UNCHANGED <<exit_code, exit_at, prec, debugVars, envVars, calls, display,
                   header, events, digit_win, scanVars, static_prefix, idx, ch,
                   genVars, scanned>>

\* BatchPause followed by `continue`: the digit that set the record is not
\* drawn
BatchPauseSkipRender ==
    /\ pc = "b_pause"
    /\ remaining' = remaining \ {run_len}
    /\ pc' = "b_next"
    /\ UNCHANGED <<exit_code, exit_at, prec, debugVars, envVars, calls, display,
                   header, events, digit_win, total_pos, run_char, run_len,
                   static_prefix, idx, ch, genVars, scanned>>

\* time.sleep(1) ends; remaining.remove(n)
BatchPause ==
    /\ pc = "b_pause"
    /\ remaining' = remaining \ {run_len}
    /\ pc' = "b_render"
    /\ UNCHANGED <<exit_code, exit_at, prec, debugVars, envVars, calls, display,
                   header, events, digit_win, total_pos, run_char, run_len,
                   static_prefix, idx, ch, genVars, scanned>>

\* digit_win.addstr(ch, ...); digit_win.refresh()
BatchRender ==
    /\ pc = "b_render"
    /\ digit_win' = Append(digit_win, RenderAttr(ch, run_char, run_len))
    /\ pc' = "b_next"
    /\ UNCHANGED <<exit_code, exit_at, prec, debugVars, envVars, calls, display,
                   header, events, scanVars, static_prefix, idx, ch, genVars,
                   scanned>>

(***************************************************************************)
(* phi_digit_generator, as next(live_gen) runs it.                         *)
(***************************************************************************)
\* the first next(): getcontext().prec = PHI_PREFIX_LENGTH + 10; printed = 0
GenStart ==
    /\ pc = "l_next"
    /\ gen_state = "new"
    /\ pulled < live_cap
    /\ prec' = PrefixLen + GEN_MARGIN
    /\ printed' = 0
    /\ gen_state' = "loop"
    /\ UNCHANGED <<pc, exit_code, exit_at, debugVars, envVars, calls, display, header,
                   events, digit_win, scanVars, static_prefix, idx, ch, gen_s,
                   pulled, scanned>>

\* the body of `while True`: the value at precision printed + 10, then the
\* test of the inner loop, which yields s[printed] or falls through
GenCompute ==
    /\ pc = "l_next"
    /\ gen_state = "loop"
    /\ pulled < live_cap
    /\ prec' = printed + GEN_MARGIN
    /\ gen_s' = Format(PhiAt(prec'))
    /\ IF printed < Len(gen_s')
       THEN /\ ch' = gen_s'[printed + 1]
            /\ pulled' = pulled + 1
            /\ gen_state' = "suspended"
            /\ pc' = "l_count"
       ELSE UNCHANGED <<ch, pulled, gen_state, pc>>
    /\ UNCHANGED <<exit_code, exit_at, debugVars, envVars, calls, display, header,
                   events, digit_win, scanVars, static_prefix, idx, printed,
                   scanned>>

\* GenResume without `printed += 1`
GenResumeNoAdvance ==
    /\ pc = "l_next"
    /\ gen_state = "suspended"
    /\ pulled < live_cap
    /\ IF printed < Len(gen_s)
       THEN /\ ch' = gen_s[printed + 1]
            /\ pulled' = pulled + 1
            /\ pc' = "l_count"
            /\ UNCHANGED gen_state
       ELSE /\ gen_state' = "loop"
            /\ UNCHANGED <<ch, pulled, pc>>
    /\ UNCHANGED <<exit_code, exit_at, prec, debugVars, envVars, calls, display,
                   header, events, digit_win, scanVars, static_prefix, idx,
                   printed, gen_s, scanned>>

\* the generator resumes after a yield: printed += 1, then the test of the
\* inner loop, which yields s[printed] or leaves for the outer loop
GenResume ==
    /\ pc = "l_next"
    /\ gen_state = "suspended"
    /\ pulled < live_cap
    /\ printed' = printed + 1
    /\ IF printed' < Len(gen_s)
       THEN /\ ch' = gen_s[printed' + 1]
            /\ pulled' = pulled + 1
            /\ pc' = "l_count"
            /\ UNCHANGED gen_state
       ELSE /\ gen_state' = "loop"
            /\ UNCHANGED <<ch, pulled, pc>>
    /\ UNCHANGED <<exit_code, exit_at, prec, debugVars, envVars, calls, display,
                   header, events, digit_win, scanVars, static_prefix, idx,
                   gen_s, scanned>>

(***************************************************************************)
(* curses_main: the live phase, one iteration of `while True`.             *)
(***************************************************************************)
\* total_pos += 1
LiveCount ==
    /\ pc = "l_count"
    /\ total_pos' = total_pos + 1
    /\ scanned' = Append(scanned, ch)
    /\ pc' = "l_scan"
    /\ UNCHANGED <<exit_code, exit_at, prec, debugVars, envVars, calls, display,
                   header, events, digit_win, run_char, run_len, remaining,
                   static_prefix, idx, ch, genVars>>

\* LiveScan with a non-digit skipped and the run kept across it
LiveScanNoReset ==
    /\ pc = "l_scan"
    /\ IF ~isdigit(ch)
       THEN /\ pc' = "l_next"
            /\ UNCHANGED <<run_char, run_len>>
       ELSE /\ run_char' = RunUpdate(ch, run_char, run_len)[1]
            /\ run_len' = RunUpdate(ch, run_char, run_len)[2]
            /\ pc' = "l_render"
    /\ UNCHANGED <<exit_code, exit_at, prec, debugVars, envVars, calls, display,
                   header, events, digit_win, total_pos, remaining,
                   static_prefix, idx, ch, genVars, scanned>>

\* the run update; no test of `remaining` follows it
LiveScan ==
    /\ pc = "l_scan"
    /\ IF ~isdigit(ch)
       THEN /\ run_char' = NoChar
            /\ run_len' = 0
            /\ pc' = "l_next"
       ELSE /\ run_char' = RunUpdate(ch, run_char, run_len)[1]
            /\ run_len' = RunUpdate(ch, run_char, run_len)[2]
            /\ pc' = "l_render"
    /\ UNCHANGED <<exit_code, exit_at, prec, debugVars, envVars, calls, display,
                   header, events, digit_win, total_pos, remaining,
                   static_prefix, idx, ch, genVars, scanned>>

\* digit_win.addstr(ch, ...); digit_win.refresh()
LiveRender ==
    /\ pc = "l_render"
    /\ digit_win' = Append(digit_win, RenderAttr(ch, run_char, run_len))
    /\ pc' = "l_next"
    /\ UNCHANGED <<exit_code, exit_at, prec, debugVars, envVars, calls, display,
                   header, events, scanVars, static_prefix, idx, ch, genVars,
                   scanned>>

(***************************************************************************)
(* The external interrupt (KeyboardInterrupt).                             *)
(***************************************************************************)
\* the positions inside `try: ... except KeyboardInterrupt: return`
LivePcs == {"l_next", "l_count", "l_scan", "l_render"}

\* the exit status of an interrupt at position p: the live loop catches it
\* and curses_main returns; anywhere else it is uncaught and the interpreter
\* ends on SIGINT
InterruptStatus(p) == IF p \in LivePcs THEN 0 ELSE 130

\* an interrupt arrives between two steps; curses.wrapper restores the
\* terminal on the way out
Interrupt ==
    /\ pc # "exit"
    /\ exit_code' = InterruptStatus(pc)
    /\ exit_at' = pc
    /\ display' = IF display = "none" THEN "none" ELSE "restored"
    /\ pc' = "exit"
    /\ UNCHANGED <<prec, debugVars, envVars, calls, header, events, digit_win,
                   scanVars, static_prefix, idx, ch, genVars, scanned>>

(***************************************************************************)
(* Specifications.                                                         *)
(***************************************************************************)
Startup == DebugPrefix \/ DebugFind \/ DebugCompare \/ CursesInit
             \/ GetchReturn \/ StreamInit

Batch == BatchNext \/ BatchCount \/ BatchScan \/ BatchMilestone \/ BatchPause
           \/ BatchRender

Live == GenStart \/ GenCompute \/ GenResume \/ LiveCount \/ LiveScan
          \/ LiveRender

Next == Startup \/ Batch \/ Live \/ Interrupt

\* the program: main()
Spec == Init /\ [][Next]_vars

(***************************************************************************)
(* The scanners over an arbitrary input string: the engine's output is     *)
(* replaced by any string over two digits and the separator, by the unit   *)
(* scenario of the specification and by one run long enough for every n.   *)
(***************************************************************************)
ScanAlphabet == {"1", "2", "."}

\* "1.0112223333"
UnitScenario == <<"1", ".", "0", "1", "1", "2", "2", "2", "3", "3", "3", "3">>

\* "7777777777"
LongRun == Rep("7", MAX_N + 1)

ScanStrings ==
    UNION {[1..k -> ScanAlphabet] : k \in 0..MaxLen} \cup {UnitScenario, LongRun}

\* run_debug_check from `found = find_first_runs(prefix, 9)` on, for any
\* prefix
InitFind ==
    /\ pc = "d_find"
    /\ exit_code = -1
    /\ exit_at = "none"
    /\ prec = PrecAfterPrefix(DebugLen)
    /\ ground_truth \in TruthTables
    /\ prefix \in ScanStrings
    /\ found = BlankHeader
    /\ reported = <<>>
    /\ h = MIN_ROWS
    /\ w = MIN_COLS
    /\ live_cap = ScanLive
    /\ display = "none"
    /\ header = BlankHeader
    /\ events = <<>>
    /\ digit_win = <<>>
    /\ total_pos = 0
    /\ run_char = NoChar
    /\ run_len = 0
    /\ remaining = {}
    /\ static_prefix = <<>>
    /\ idx = 0
    /\ ch = NoChar
    /\ gen_state = "new"
    /\ printed = 0
    /\ gen_s = <<>>
    /\ pulled = 0
    /\ scanned = <<>>
    /\ calls = <<CallRecord(DebugLen, DEFAULT_PREC)>>

NextFind == DebugFind \/ DebugCompare

SpecFind == InitFind /\ [][NextFind]_vars

\* curses_main from the first iteration of the batch loop on, for any
\* static_prefix
InitScan ==
    /\ pc = "b_next"
    /\ exit_code = -1
    /\ exit_at = "none"
    /\ prec = PrecAfterPrefix(PrefixLen)
    /\ ground_truth = Restrict(GROUND_TRUTH, DebugLen)
    /\ prefix = get_phi_prefix(DebugLen)
    /\ found = find_first_runs(prefix, MAX_N)
    /\ reported = <<>>
    /\ h = MIN_ROWS
    /\ w = MIN_COLS
    /\ live_cap = ScanLive
    /\ display = "windows"
    /\ header = BlankHeader
    /\ events = <<>>
    /\ digit_win = <<>>
    /\ total_pos = 0
    /\ run_char = NoChar
    /\ run_len = 0
    /\ remaining = Lengths
    /\ static_prefix \in ScanStrings
    /\ idx = 0
    /\ ch = NoChar
    /\ gen_state = "new"
    /\ printed = 0
    /\ gen_s = <<>>
    /\ pulled = 0
    /\ scanned = <<>>
    /\ calls = <<CallRecord(DebugLen, DEFAULT_PREC),
                 CallRecord(PrefixLen, PrecAfterPrefix(DebugLen))>>

NextScan == Batch \/ Live \/ Interrupt

SpecScan == InitScan /\ [][NextScan]_vars

(***************************************************************************)
(* The engine on its own: get_phi_prefix called with any target lengths,   *)
(* starting from any precision that the program can have left in the       *)
(* shared context.                                                         *)
(***************************************************************************)
\* the decimal default, and what phi_digit_generator sets before its loop
\* and in its first iteration
PriorPrecs == {DEFAULT_PREC, PrefixLen + GEN_MARGIN, GEN_MARGIN}

InitPrefix ==
    /\ pc = "p_call"
    /\ exit_code = -1
    /\ exit_at = "none"
    /\ prec \in PriorPrecs
    /\ ground_truth = GROUND_TRUTH
    /\ prefix = <<>>
    /\ found = BlankHeader
    /\ reported = <<>>
    /\ h = MIN_ROWS
    /\ w = MIN_COLS
    /\ live_cap = ScanLive
    /\ display = "none"
    /\ header = BlankHeader
    /\ events = <<>>
    /\ digit_win = <<>>
    /\ total_pos = 0
    /\ run_char = NoChar
    /\ run_len = 0
    /\ remaining = {}
    /\ static_prefix = <<>>
    /\ idx = 0
    /\ ch = NoChar
    /\ gen_state = "new"
    /\ printed = 0
    /\ gen_s = <<>>
    /\ pulled = 0
    /\ scanned = <<>>
    /\ calls = <<>>

\* one call get_phi_prefix(N)
PrefixCall ==
    /\ pc = "p_call"
    /\ Len(calls) < MaxCalls
    /\ \E N \in 1..MaxTarget :
          /\ calls' = Append(calls, CallRecord(N, prec))
          /\ prec' = PrecAfterPrefix(N)
    /\ UNCHANGED <<pc, exit_code, exit_at, debugVars, envVars, display, header,
                   events, digit_win, scanVars, static_prefix, idx, ch,
                   genVars, scanned>>

NextPrefix == PrefixCall

SpecPrefix == InitPrefix /\ [][NextPrefix]_vars

(***************************************************************************)
(* Properties.                                                             *)
(***************************************************************************)
\* the n characters of s from position p on are one repeated digit
EqualBlock(s, p, n) ==
    /\ p >= 1
    /\ p + n - 1 <= Len(s)
    /\ isdigit(s[p])
    /\ \A k \in 1..(n - 1) : s[p + k] = s[p]

\* the positions of s at which n equal digits start
BlockStarts(s, n) == {p \in 1..Len(s) : EqualBlock(s, p, n)}

\* the least element of a non-empty set of positions
Least(S) == CHOOSE p \in S : \A q \in S : p <= q

\* an entry n -> (sequence, position) that is set
IsSet(entry) == entry # <<NA, None>>

\* found[n] is what the least block of n equal digits of prefix gives
FoundIsLeastBlock ==
    \A n \in Lengths :
        IF BlockStarts(prefix, n) = {} THEN found[n] = <<NA, None>>
        ELSE LET s == Least(BlockStarts(prefix, n))
             IN  found[n] = <<Rep(prefix[s], n), s>>

\* C1 (as amended): once run_debug_check has called find_first_runs on
\* prefix, found[n] is, for every n in 2..9, the digit repeated n times and
\* the least 1-based position at which n equal digits start, and
\* ("N/A", None) exactly when prefix has no n equal digits in a row;
\* "1.0112223333" gives ("11", 4), ("222", 6) and ("3333", 9).
C1_FirstRuns ==
    pc # "d_find" =>
        /\ FoundIsLeastBlock
        /\ prefix = UnitScenario =>
              /\ found[2] = <<Rep("1", 2), 4>>
              /\ found[3] = <<Rep("2", 3), 6>>
              /\ found[4] = <<Rep("3", 4), 9>>

\* C1 witness: find_first_runs has run on the unit scenario, which has the
\* runs of 2, 3 and 4 and none of 5
C1_Witness ==
    /\ pc = "d_compare"
    /\ prefix = UnitScenario
    /\ found[4] = <<Rep("3", 4), 9>>
    /\ found[5] = <<NA, None>>

\* C1 as stated: the same, with "1.0112223333" giving ("11", 3), ("222", 5)
\* and ("3333", 9)
C1_AsStated ==
    pc # "d_find" =>
        /\ FoundIsLeastBlock
        /\ prefix = UnitScenario =>
              /\ found[2] = <<Rep("1", 2), 3>>
              /\ found[3] = <<Rep("2", 3), 5>>
              /\ found[4] = <<Rep("3", 4), 9>>

\* the batch loop has finished its iteration over the first idx characters
AtBatchBoundary == pc = "b_next"

\* C2: the batch loop of curses_main, fed one character at a time, has after
\* every whole iteration recorded for each n in 2..9 exactly what
\* find_first_runs returns for the characters fed so far, and n is still in
\* `remaining` exactly when find_first_runs returns ("N/A", None); once the
\* loop has ended the record is find_first_runs of the whole string.
C2_StreamingEqualsBatch ==
    /\ AtBatchBoundary =>
          /\ header = find_first_runs(Take(static_prefix, idx), MAX_N)
          /\ remaining = {n \in Lengths : ~IsSet(header[n])}
    /\ pc \in LivePcs =>
          /\ header = find_first_runs(static_prefix, MAX_N)
          /\ remaining = {n \in Lengths :
                             find_first_runs(static_prefix, MAX_N)[n]
                                 = <<NA, None>>}

\* C2 witness: the batch loop has ended on the unit scenario with the runs
\* of 2, 3 and 4 recorded and 5 not
C2_Witness ==
    /\ pc \in LivePcs
    /\ static_prefix = UnitScenario
    /\ header[2] = <<Rep("1", 2), 4>>
    /\ header[4] = <<Rep("3", 4), 9>>
    /\ 5 \in remaining

\* the entry recorded for n is n equal digits of the scanned stream with a
\* different character (or none) before them, and no n equal digits start
\* earlier
RecordedAtLeastBlock(n) ==
    LET s == header[n][2]
        d == header[n][1][1]
    IN  /\ header[n][1] = Rep(d, n)
        /\ EqualBlock(scanned, s, n)
        /\ scanned[s] = d
        /\ s > 1 => scanned[s - 1] # d
        /\ \A q \in 1..(s - 1) : ~EqualBlock(scanned, q, n)

\* a maximal run of exactly n equal digits starts at position p of s
ExactRunAt(s, p, n) ==
    /\ EqualBlock(s, p, n)
    /\ p > 1 => s[p - 1] # s[p]
    /\ p + n <= Len(s) => s[p + n] # s[p]

\* C3 (as amended): the run recorded for n is the first n digits of a run of
\* at least n identical digits with the lowest starting position: the
\* character just before startPosition, where there is one, differs from the
\* run's digit, the character just after startPosition+n-1 may be the same
\* digit, and no n identical digits start at a lower position.
C3_RecordedRun ==
    \A n \in Lengths : IsSet(header[n]) => RecordedAtLeastBlock(n)

\* C3 witness: a run of three has been scanned whole and its first two
\* digits are the entry for 2
C3_Witness ==
    /\ IsSet(header[2])
    /\ IsSet(header[3])
    /\ header[2][2] = header[3][2]
    /\ Len(scanned) >= header[2][2] + 2

\* C3 as stated: the run recorded for n is a maximal run of exactly n
\* identical digits with the lowest starting position
C3_AsStated ==
    \A n \in Lengths :
        IsSet(header[n]) =>
            /\ ExactRunAt(scanned, header[n][2], n)
            /\ \A q \in 1..(header[n][2] - 1) : ~ExactRunAt(scanned, q, n)

\* the golden-ratio digit stream "1.6180339887...": (1 + sqrt(5)) / 2 from
\* the expansion of sqrt(5), without rounding
PhiStream == Format(HalveDigits(DecimalAddOne(SQRT5)))

\* the positions of curses_main from the first batch iteration on
BatchPcs == {"b_next", "b_count", "b_scan", "b_milestone", "b_pause", "b_render"}

StreamingPcs == BatchPcs \cup LivePcs

\* C4 as stated: the characters counted by total_pos across the batch phase
\* and the live phase are the golden-ratio digit stream in order: the
\* character counted at position p is the p-th character of the stream.
C4_StreamInOrder ==
    /\ Len(scanned) = total_pos
    /\ \A p \in 1..Len(scanned) : scanned[p] = PhiStream[p]

\* C5 as stated: once a character of the live phase has been processed
\* whole and has brought the run length to some n in 2..9, the entry for n
\* is set and a milestone for n has been emitted, whether n was found in the
\* batch phase or was still unset when it ended.
C5_LiveFirstRunHonoured ==
    (pc = "l_next" /\ pulled > 0 /\ run_len \in Lengths) =>
        /\ IsSet(header[run_len])
        /\ \E i \in 1..Len(events) : events[i][1] = run_len

\* the milestones emitted for n
EventsFor(n) == {i \in 1..Len(events) : events[i][1] = n}

\* C6: for each n in 2..9 at most one milestone is ever emitted, the entry
\* for n is set exactly when its milestone has been emitted, and a step of
\* the batch or live phase never changes an entry that is set.
C6_WrittenOnce ==
    /\ [](\A n \in Lengths :
             /\ Cardinality(EventsFor(n)) <= 1
             /\ IsSet(header[n]) <=> EventsFor(n) # {})
    /\ [][\A n \in Lengths : IsSet(header[n]) => header'[n] = header[n]]_vars

\* C6 witness: the entry for 2 is set, a later run of two other digits has
\* been scanned, and the live phase is running
C6_Witness ==
    /\ pc \in LivePcs
    /\ pulled > 0
    /\ IsSet(header[2])
    /\ \E q \in 1..idx :
          /\ q > header[2][2] + 1
          /\ EqualBlock(scanned, q, 2)
          /\ scanned[q] # header[2][1][1]

\* C7: the milestones are emitted in position order: of two milestones, the
\* one emitted first has the lower or the same startPosition.
C7_PositionOrder ==
    \A i, j \in 1..Len(events) : i < j => events[i][3] <= events[j][3]

\* C7 witness: three milestones, two for the same run and one for a later
\* run
C7_Witness ==
    /\ Len(events) >= 3
    /\ \E i, j \in 1..Len(events) : i < j /\ events[i][3] = events[j][3]
    /\ \E i, j \in 1..Len(events) : i < j /\ events[i][3] < events[j][3]

\* the run lengths whose reference entry differs from find_first_runs of
\* the prefix
MismatchingLengths ==
    {n \in Lengths : ground_truth[n] # find_first_runs(prefix, MAX_N)[n]}

\* no display or streaming state exists
NothingCreated ==
    /\ display = "none"
    /\ remaining = {}
    /\ static_prefix = <<>>
    /\ total_pos = 0
    /\ digit_win = <<>>
    /\ events = <<>>

\* the positions after run_debug_check has returned
AfterDebugPcs == {"wrapper", "getch", "stream_init"} \cup StreamingPcs

\* what run_debug_check has reported and how the process went on
DebugCheckOutcome ==
    /\ exit_code = 1 =>
          /\ pc = "exit"
          /\ MismatchingLengths # {}
          /\ {reported[i][1] : i \in 1..Len(reported)} = MismatchingLengths
          /\ \A i, j \in 1..Len(reported) :
                i < j => reported[i][1] < reported[j][1]
          /\ \A i \in 1..Len(reported) :
                LET n == reported[i][1]
                IN  reported[i] =
                        <<n, ground_truth[n][1], ground_truth[n][2],
                          find_first_runs(prefix, MAX_N)[n][1],
                          find_first_runs(prefix, MAX_N)[n][2]>>
          /\ NothingCreated
    /\ reported # <<>> => exit_code = 1
    /\ (pc \in AfterDebugPcs \/ (pc = "exit" /\ exit_at \in AfterDebugPcs)) =>
          /\ MismatchingLengths = {}
          /\ reported = <<>>

\* C8: when some entry differs, run_debug_check reports every mismatching n
\* and no other, in increasing n, each with the expected and the found
\* values, and the process exits with status 1 before any display or
\* streaming state exists; when none differs nothing is reported and
\* control goes on to curses_main.
C8_DebugCheck ==
    /\ []DebugCheckOutcome
    /\ [][(pc = "d_compare" /\ pc' # "exit") =>
              (MismatchingLengths = {} /\ pc' = "wrapper")]_vars
    /\ [][(pc = "d_compare" /\ MismatchingLengths # {}) =>
              (pc' = "exit" /\ exit_code' # 0)]_vars

\* C8 witness: three entries differed and all three were reported
C8_Witness ==
    /\ exit_code = 1
    /\ Len(reported) = 3
    /\ Cardinality(MismatchingLengths) = 3

\* the digits among the characters counted so far
DigitsScanned == {p \in 1..Len(scanned) : isdigit(scanned[p])}

\* C9 as stated: when an interrupt ends the live phase, the last character
\* counted by total_pos has been applied to the run and, being a digit, is
\* the last character drawn: every digit counted has been drawn.
C9_InterruptAtBoundary ==
    (pc = "exit" /\ exit_at \in LivePcs /\ scanned # <<>>
         /\ isdigit(scanned[Len(scanned)])) =>
        /\ Len(digit_win) = Cardinality(DigitsScanned)
        /\ digit_win[Len(digit_win)].ch = scanned[Len(scanned)]
        /\ run_char = scanned[Len(scanned)]

\* C10 as stated: an interrupt that arrives once streaming has begun, in
\* the batch phase, in a milestone pause or in the live phase, ends the
\* process with exit status 0.
C10_InterruptExitsZero ==
    (pc = "exit" /\ exit_at \in StreamingPcs) => exit_code = 0

\* string a is a prefix of string b
IsPrefix(a, b) ==
    /\ Len(a) <= Len(b)
    /\ \A k \in 1..Len(a) : a[k] = b[k]

\* C11: whenever get_phi_prefix has been called for two lengths L1 < L2,
\* the value returned for L1 is a prefix of the value returned for L2: the
\* larger working precision changes no character returned for the smaller
\* length.
C11_PrefixMonotone ==
    \A i, j \in DOMAIN calls :
        calls[i].n < calls[j].n => IsPrefix(calls[i].ret, calls[j].ret)

\* C11 witness: a short and a long call, at working precisions 53 and 70
C11_Witness ==
    /\ Len(calls) = 2
    /\ calls[1].n = 3
    /\ calls[2].n = MaxTarget
    /\ calls[1].ret = <<"1", ".", "6">>

\* C12: every call get_phi_prefix(N), N >= 1, has returned, and returned
\* exactly N characters of the decimal expansion; the precision it leaves
\* is N + 50 raised by the increment of 50 a whole number of times (the
\* retries made), so the retry loop has ended.
C12_ExactLength ==
    \A i \in DOMAIN calls :
        /\ Len(calls[i].ret) = calls[i].n
        /\ \A k \in 1..Len(calls[i].ret) :
               IF k = 2 THEN calls[i].ret[k] = "." ELSE isdigit(calls[i].ret[k])
        /\ calls[i].after >= calls[i].n + PREC_MARGIN
        /\ (calls[i].after - (calls[i].n + PREC_MARGIN)) % PREC_STEP = 0

\* C12 witness: the calls for N = 1 and N = 2 have returned "1" and "1."
C12_Witness ==
    /\ Len(calls) = 2
    /\ calls[1].n = 1 /\ calls[1].ret = <<"1">>
    /\ calls[2].n = 2 /\ calls[2].ret = <<"1", ".">>

\* the terminal is smaller than 20 rows by 80 columns
TooSmall == h < MIN_ROWS \/ w < MIN_COLS

\* nothing of the streaming phase exists: no batch prefix, no scanner
\* state, no digit drawn, no milestone, no windows
NoStreaming ==
    /\ pc \notin StreamingPcs \cup {"stream_init"}
    /\ static_prefix = <<>>
    /\ Len(calls) <= 1
    /\ remaining = {}
    /\ total_pos = 0
    /\ scanned = <<>>
    /\ digit_win = <<>>
    /\ events = <<>>
    /\ header = BlankHeader
    /\ display # "windows"

\* C13: on a terminal of fewer than 20 rows or fewer than 80 columns the
\* program shows the diagnostic, waits for a key and ends with status 0
\* (130 if the wait is interrupted) with nothing of the streaming phase
\* ever created; on a terminal of at least 20 rows and 80 columns, 80x20
\* included, no diagnostic is shown and curses_main goes on to streaming.
C13_SmallTerminal ==
    /\ [](TooSmall => NoStreaming)
    /\ [](pc = "getch" => (TooSmall /\ display = "diagnostic"))
    /\ []((pc = "exit" /\ exit_at = "getch") =>
              (TooSmall /\ display = "restored" /\ exit_code \in {0, 130}))
    /\ [](~TooSmall => display # "diagnostic")
    /\ [][(pc = "wrapper" /\ pc' # "exit") =>
              IF TooSmall THEN pc' = "getch" /\ display' = "diagnostic"
              ELSE pc' = "stream_init" /\ display' = "windows"]_vars
    /\ [][(pc = "getch" /\ exit_code' # 130) =>
              (pc' = "exit" /\ exit_code' = 0)]_vars

\* C13 witness: a terminal of 20 rows by 79 columns; the diagnostic was
\* shown, a key was pressed and the program ended with status 0
C13_Witness ==
    /\ h = MIN_ROWS /\ w = MIN_COLS - 1
    /\ pc = "exit" /\ exit_at = "getch"
    /\ exit_code = 0
    /\ display = "restored"
    /\ NoStreaming

\* a whole iteration of the batch or the live loop has just ended
AtLoopBoundary == pc \in {"b_next", "l_next"}

\* a drawn digit has the in-run classification: a color pair other than the
\* plain pair 1
InRun(d) == d.pair # 1

\* C14: in both phases the digit just drawn has the in-run classification
\* exactly when the run length after that digit is >= 2 (its color pair is
\* then the pair of its digit), and is plain otherwise; it is bold exactly
\* when it is in-run and odd; what was drawn never changes afterwards, and
\* two drawn digits with the same character and the same in-run status
\* have the same attributes whichever phase drew them.
C14_RenderClassification ==
    /\ []((AtLoopBoundary /\ scanned # <<>> /\ isdigit(scanned[Len(scanned)])) =>
             LET d == digit_win[Len(digit_win)]
             IN  /\ d.ch = scanned[Len(scanned)]
                 /\ InRun(d) <=> run_len >= 2
                 /\ InRun(d) => d.pair = RunColor(d.ch)
                 /\ d.bold <=> (run_len >= 2 /\ d.ch \in {"1", "3", "5", "7", "9"}))
    /\ [](\A i, j \in DOMAIN digit_win :
             (digit_win[i].ch = digit_win[j].ch
                  /\ (InRun(digit_win[i]) <=> InRun(digit_win[j]))) =>
                 digit_win[i] = digit_win[j])
    /\ [][digit_win' # digit_win =>
             (/\ Len(digit_win') = Len(digit_win) + 1
              /\ SubSeq(digit_win', 1, Len(digit_win)) = digit_win)]_vars

\* C14 witness: the live phase has drawn the second '3' of "33" in-run and
\* bold, after the batch phase drew an in-run even digit without bold
C14_Witness ==
    /\ pc = "l_next"
    /\ pulled > 0
    /\ run_len = 2 /\ run_char = "3"
    /\ digit_win[Len(digit_win)] = [ch |-> "3", pair |-> 3, bold |-> TRUE]
    /\ \E i \in 1..Len(static_prefix) :
          digit_win[i] = [ch |-> "2", pair |-> 3, bold |-> FALSE]

\* the position the program is at, or was at when it ended
At == IF pc = "exit" THEN exit_at ELSE pc

\* the characters the run update has been applied to: those counted by
\* total_pos, less the last one while its update is still to come
Applied ==
    IF At \in {"b_scan", "l_scan"} THEN SubSeq(scanned, 1, Len(scanned) - 1)
    ELSE scanned

\* the number of consecutive equal digits of s that end at its last
\* character, 0 when s is empty or ends in a non-digit
TrailingRun(s) ==
    IF s = <<>> \/ ~isdigit(s[Len(s)]) THEN 0
    ELSE LET same == {k \in 1..Len(s) :
                         \A q \in (Len(s) - k + 1)..Len(s) : s[q] = s[Len(s)]}
         IN  CHOOSE k \in same : \A m \in same : m <= k

\* C15: after every character the scanner has processed, in the batch
\* phase, in the live phase and across the switch between them, run_len is
\* the number of consecutive equal digits ending at the last character
\* processed (0 right after a non-digit) and run_char is that digit (none
\* exactly when run_len is 0); the first digit after a non-digit has run
\* length 1.
C15_RunStateConsistent ==
    At \in StreamingPcs =>
        /\ run_len = TrailingRun(Applied)
        /\ run_char = IF run_len = 0 THEN NoChar ELSE Applied[Len(Applied)]
        /\ (Len(Applied) >= 2 /\ ~isdigit(Applied[Len(Applied) - 1])
               /\ isdigit(Applied[Len(Applied)])) => run_len = 1

\* C15 witness: in the live phase, the first digit after the separator has
\* run length 1 although the digit before the separator had started a run
C15_Witness ==
    /\ pc = "l_render"
    /\ pulled = 3
    /\ Len(scanned) >= 4
    /\ scanned[Len(scanned) - 2] = scanned[Len(scanned) - 3]
    /\ ~isdigit(scanned[Len(scanned) - 1])
    /\ run_len = 1 /\ run_char = "6"

\* the rank of position p of `scanned` among the digits counted
DigitRank(p) == Cardinality({q \in 1..p : isdigit(scanned[q])})

\* the positions between the count of a character and the end of its
\* iteration
MidIteration ==
    {"b_scan", "b_milestone", "b_pause", "b_render", "l_scan", "l_render"}

\* 1 while the digit counted last is still to be drawn, 0 otherwise
Pending ==
    IF At \in MidIteration /\ scanned # <<>> /\ isdigit(scanned[Len(scanned)])
    THEN 1 ELSE 0

\* C16: each character is processed in series.  Every digit counted before
\* the last one has been drawn, once and in the order counted, before the
\* next character is counted, and the last one is drawn by the end of its
\* iteration; when a milestone is notified the run state already includes
\* the digit and the digit is not drawn yet; when the digit is drawn the
\* milestone for its run length, if it was due, has been notified and its
\* pause is over.
C16_SerialProcessing ==
    At \in StreamingPcs =>
        /\ Len(digit_win) = Cardinality(DigitsScanned) - Pending
        /\ AtLoopBoundary =>
              \A p \in DigitsScanned : digit_win[DigitRank(p)].ch = scanned[p]
        /\ Pending = 1 => Len(digit_win) = DigitRank(Len(scanned)) - 1
        /\ (At \in {"b_count", "l_count"} /\ digit_win # <<>>) =>
              \E p \in DigitsScanned :
                  /\ DigitRank(p) = Len(digit_win)
                  /\ digit_win[Len(digit_win)].ch = scanned[p]
        /\ At \in {"b_milestone", "b_pause", "b_render", "l_render"} =>
              /\ Pending = 1
              /\ run_char = scanned[Len(scanned)]
              /\ run_len = TrailingRun(scanned)
        /\ At = "b_milestone" => (run_len \in remaining /\ ~IsSet(header[run_len]))
        /\ At = "b_pause" =>
              /\ run_len \in remaining
              /\ events # <<>>
              /\ events[Len(events)]
                    = <<run_len, Rep(run_char, run_len), total_pos - run_len + 1>>
        /\ (At = "b_render" /\ run_len \in Lengths) =>
              (run_len \notin remaining /\ IsSet(header[run_len]))

\* C16 witness: the third '2' of "222" has been counted, the record for 3
\* has been notified and its pause is over, and only now is the digit about
\* to be drawn, after the five digits before it
C16_Witness ==
    /\ pc = "b_render"
    /\ run_len = 3 /\ run_char = "2"
    /\ events # <<>>
    /\ events[Len(events)] = <<3, Rep("2", 3), total_pos - 2>>
    /\ total_pos = 6
    /\ Len(digit_win) = 5

\* C17: every pull of the live generator yields after at most one
\* recomputation.  A recomputation at precision printed + 10 gives a string
\* longer than printed, so the step that recomputes also yields; the k-th
\* pull yields the character at index k - 1 of the generator's current
\* string and pulls advance the index by exactly one; a generator step that
\* does not yield is the start of the generator or the end of its current
\* string and leads to the recomputation, so no pull takes more than two
\* generator steps and the generator never loops without yielding.
C17_GeneratorProgress ==
    /\ [](gen_state = "suspended" =>
             /\ printed = pulled - 1
             /\ printed < Len(gen_s)
             /\ gen_s = Format(PhiAt(prec)))
    /\ []((pc = "l_next" /\ gen_state = "loop") =>
             printed < Len(Format(PhiAt(printed + GEN_MARGIN))))
    /\ [][pulled' # pulled =>
             /\ pulled' = pulled + 1
             /\ printed' = pulled
             /\ pc' = "l_count"
             /\ ch' = gen_s'[pulled']]_vars
    /\ [][gen_s' # gen_s => pulled' = pulled + 1]_vars
    /\ [][(pc = "l_next" /\ pulled' = pulled /\ pc' # "exit") =>
             (/\ gen_state # "loop"
              /\ gen_state' = "loop"
              /\ gen_state = "suspended" => printed' = Len(gen_s))]_vars

\* C17 witness: the twelfth pull, the first one that had to recompute after
\* the string of the first recomputation was used up, has yielded the
\* character at index 11 of the new string
C17_Witness ==
    /\ pc = "l_count"
    /\ gen_state = "suspended"
    /\ pulled = GEN_MARGIN + 2
    /\ printed = GEN_MARGIN + 1
    /\ prec = printed + GEN_MARGIN
    /\ Len(gen_s) = prec + 1
    /\ ch = gen_s[pulled]

\* C18 as stated: get_phi_prefix is a pure function of its target length.
\* Two calls with the same length return the same value whatever precision
\* the shared context held before each, and every call leaves the shared
\* precision as it found it.
C18_NoSideEffect ==
    \A i \in DOMAIN calls :
        /\ \A j \in DOMAIN calls :
               calls[i].n = calls[j].n => calls[i].ret = calls[j].ret
        /\ calls[i].after = calls[i].before

\* the run lengths whose header line is set
Recorded == {n \in Lengths : IsSet(header[n])}

\* the position of the digit that triggered the i-th milestone
EventEnd(i) == events[i][3] + events[i][1] - 1

\* C19: in every state of the streaming scanner `remaining` is upward
\* closed in 2..9 and the recorded lengths are an initial segment of 2..9;
\* the milestones are notified for n = 2, 3, 4, ... in that order, none
\* before its predecessor, and no character triggers two of them.
C19_RemainingUpwardClosed ==
    At \in StreamingPcs =>
        /\ remaining \subseteq Lengths
        /\ \A n \in remaining : \A m \in n..MAX_N : m \in remaining
        /\ \A n \in Recorded : \A m \in 2..n : m \in Recorded
        /\ \A n \in Lengths \ remaining : n \in Recorded
        /\ \A i \in DOMAIN events : events[i][1] = i + 1
        /\ \A i, j \in DOMAIN events : i < j => EventEnd(i) < EventEnd(j)
        /\ Len(events) <= total_pos

\* C19 witness: "1.0112223333" has been streamed; the milestones for 2, 3
\* and 4 were notified in that order and 5..9 are still to be found
C19_Witness ==
    /\ pc = "l_next"
    /\ static_prefix = UnitScenario
    /\ Len(events) = 3
    /\ remaining = 5..MAX_N
    /\ Recorded = 2..4

=============================================================================
